---- MODULE Spec2Model ----
(***************************************************************************)
(* Initial node synchronisation of a pglogical subscriber                  *)
(* (pglogical_init_replica.c).                                             *)
(*                                                                         *)
(* One worker process runs pglogical_init_replica against a local (target) *)
(* database and a remote origin server.  The model follows the function    *)
(* statement by statement; every place where the code can raise ERROR or   *)
(* FATAL, and every place where the process can die, is a branch.          *)
(*                                                                         *)
(* Durable state: the target's persisted status, the origin's view of it,  *)
(* the replication slot on the origin, the local replication origin, the   *)
(* target's schema and table contents.  Everything else dies with the      *)
(* process.                                                                *)
(***************************************************************************)
EXTENDS Integers, Sequences, FiniteSets, TLC

(* ----------------------------- bounds ---------------------------------- *)
\* highest WAL position the origin server is let to reach
MaxLsn == 2
\* number of COPY chunks in the export stream of the largest table
MaxChunks == 2

(* ------------------------ node status and role ------------------------- *)
NODE_STATUS_INIT == "INIT"
NODE_STATUS_SYNC_SCHEMA == "SYNC_SCHEMA"
NODE_STATUS_SLOTS == "SLOTS"
NODE_STATUS_CATCHUP == "CATCHUP"
NODE_STATUS_CONNECT_BACK == "CONNECT_BACK"
NODE_STATUS_READY == "READY"
\* a status byte that is none of the six above
NODE_STATUS_OTHER == "OTHER"

NODE_ROLE_SUBSCRIBER == "subscriber"
NODE_ROLE_OTHER == "other_role"

StatusOrder ==
    << NODE_STATUS_INIT, NODE_STATUS_SYNC_SCHEMA, NODE_STATUS_SLOTS,
       NODE_STATUS_CATCHUP, NODE_STATUS_CONNECT_BACK, NODE_STATUS_READY >>

RecognizedStatus == { StatusOrder[i] : i \in 1..Len(StatusOrder) }

AllStatus == RecognizedStatus \cup { NODE_STATUS_OTHER }

Rank(s) == CHOOSE i \in 1..Len(StatusOrder) : StatusOrder[i] = s

(* --------------------------- server version ---------------------------- *)
\* the server build the worker runs in (9.5.0)
PG_VERSION_NUM == 90500

\* what "<tool> -V" can print: a "pre.post" pair, nothing, or garbage
ToolVersions == { << 9, 5 >>, << 9, 4 >>, << 10, 5 >> }
ExecOutcomes ==
    { << "ok", v[1], v[2] >> : v \in ToolVersions }
        \cup { << "notfound", 0, 0 >>, << "unparsable", 0, 0 >> }

(* ------------------------------ catalog -------------------------------- *)
\* text is a sequence of one-character strings
SetD == << "d" >>
SetX == << "x" >>

\* rows of the origin's view <extension>.tables, in the order the query
\* returns them
CatalogTables ==
    << [nspname |-> "public", relname |-> "accounts", set_name |-> SetD],
       [nspname |-> "public", relname |-> "orders",   set_name |-> SetD],
       [nspname |-> "public", relname |-> "audit",    set_name |-> SetD \o SetX] >>

RelNames == { CatalogTables[i].relname : i \in 1..Len(CatalogTables) }

\* the export stream (COPY ... TO stdout) of a table at the slot's snapshot
ExportStream(rel) ==
    IF rel = "accounts" THEN [i \in 1..MaxChunks |-> << rel, i >>]
    ELSE IF rel = "orders" THEN << << rel, 1 >> >>
    ELSE << >>

\* the conn->replication_sets lists the caller may pass
ReplicationSetLists == { << SetD >>, << SetD, SetX >> }

\* the name of the snapshot the origin exports at WAL position p
SnapshotId(p) == 100 + p

NoSlot == [exists |-> FALSE, lsn |-> 0, snap |-> 0]
NoOrigin == [exists |-> FALSE, lsn |-> 0]
NoXact == [open |-> FALSE, created |-> FALSE, advanced |-> FALSE, lsn |-> 0]
EmptyTables == [r \in RelNames |-> << >>]

VARIABLES
    stored,            \* target's status in the local node catalog
    role,              \* target->role
    remote,            \* origin's view of the target's status
    replication_sets,  \* conn->replication_sets
    pc,                \* position of the worker in pglogical_init_replica
    status,            \* local variable status
    entry,             \* target->status as read at entry of this invocation
    result,            \* how the last invocation ended
    slot,              \* the replication slot on the origin server
    walPos,            \* origin server's current WAL position
    ro,                \* local replication origin, as durably recorded
    xact,              \* the local transaction of the INIT phase
    XactLastCommitEnd, \* backend-local end of the last local commit
    lsn,               \* local variable lsn
    snapshot,          \* local variable snapshot
    replConn,          \* origin_conn_repl is open
    originConn,        \* copy_node_data's origin_conn is open
    originTx,          \* state of the origin-side copy transaction
    originSnap,        \* snapshot the origin-side transaction is bound to
    targetConn,        \* copy_node_data's target_conn is open
    targetTx,          \* state of the target-side copy transaction
    tables,            \* copy_node_data's list of tables
    tblIdx,            \* foreach position in tables
    readPos,           \* chunks already pulled from the current export stream
    copybuf,           \* chunk pulled and not yet pushed
    targetBuf,         \* rows written by the open target transaction
    targetData,        \* committed rows of the target's tables
    targetSchema,      \* dump sections restored on the target
    dumpSnap,          \* snapshot of the dump artifact (0: no artifact)
    version,           \* pg_dump version found by dump_structure
    cancel,            \* a query-cancel interrupt is pending
    did,               \* side effects performed by this invocation
    advCount,          \* replorigin_advance calls of this invocation
    statusLog,         \* every set_node_status write: <<before, after>>
    copyFailed,        \* a table copy of this invocation failed mid-stream
    crashedAt,         \* status persisted by the step right before the crash
    resumeOf           \* crashedAt as of the start of this invocation

cfg == << role, replication_sets >>
catalog == << stored, statusLog >>
originSrv == << slot, walPos >>
target == << targetData, targetSchema, dumpSnap >>
locals == << status, lsn, snapshot, version >>
hist == << entry, did, advCount, copyFailed, crashedAt, resumeOf >>
copyvars == << originConn, originTx, originSnap, targetConn, targetTx, tables,
               tblIdx, readPos, copybuf, targetBuf >>
vars == << cfg, catalog, originSrv, target, locals, hist, copyvars, remote, pc,
           result, ro, xact, XactLastCommitEnd, replConn, cancel >>

(* --------------------------- pure functions ---------------------------- *)

\* find_other_exec_version: return code and *version for one "-V" output
find_other_exec_version(out) ==
    IF out[1] = "notfound" THEN [rc |-> -1, version |-> 0]
    ELSE IF out[1] = "unparsable" THEN [rc |-> -2, version |-> 0]
    ELSE [rc |-> 0, version |-> (out[2] * 100 + out[3]) * 100]

\* the version test comparing only the first component
VersionMismatch_firstOnly(v) == v \div 10000 # PG_VERSION_NUM \div 10000

\* the test of dump_structure and restore_structure on the tool's version
VersionMismatch(v) == v \div 100 # PG_VERSION_NUM \div 100

\* the major version ("9.5") a version number stands for
MajorOf(v) == << v \div 10000, (v \div 100) % 100 >>

RECURSIVE AppendNames(_)
\* the foreach of get_copy_tables: every set name appended to repsetarr
AppendNames(sets) ==
    IF sets = << >> THEN << >>
    ELSE Head(sets).name \o AppendNames(Tail(sets))

\* the array literal get_copy_tables sends
RepSetArr(sets) == << "{" >> \o AppendNames(sets) \o << "}" >>

RECURSIVE SplitElems(_, _)
\* elements of the text between the braces, separated by ","
SplitElems(txt, cur) ==
    IF txt = << >> THEN IF cur = << >> THEN { } ELSE { cur }
    ELSE IF Head(txt) = ","
         THEN (IF cur = << >> THEN { } ELSE { cur }) \cup SplitElems(Tail(txt), << >>)
         ELSE SplitElems(Tail(txt), Append(cur, Head(txt)))

\* how the origin server reads an array literal "{e1,e2,...}"
ArrayElements(lit) == SplitElems(SubSeq(lit, 2, Len(lit) - 1), << >>)

InArray(t, elems) == t.set_name \in elems

\* get_copy_tables: the RangeVars of the rows with set_name = ANY(literal)
get_copy_tables(sets) ==
    LET elems == ArrayElements(RepSetArr(sets))
        rows == SelectSeq(CatalogTables, LAMBDA t : InArray(t, elems))
    IN  [i \in 1..Len(rows) |->
            [schemaname |-> rows[i].nspname, relname |-> rows[i].relname]]

\* the result status of the slot command not tested
SlotCommandFailed_unchecked(res) == FALSE

\* the test of ensure_replication_slot_snapshot on the result status
SlotCommandFailed(res) == res # "PGRES_TUPLES_OK"

\* ensure_replication_slot_snapshot: columns 1 and 2 (from 0) of the reply
ReplyLsn(row) == row[2]
\* the snapshot name taken from the LSN column of the reply
ReplySnapshot_lsnColumn(row) == row[2]

ReplySnapshot(row) == row[3]

\* replorigin_advance called with its two LSN arguments exchanged
AdvanceTo_commitEnd(l, commitEnd) == commitEnd

\* the remote_lsn argument pglogical_init_replica gives replorigin_advance
AdvanceTo(l, commitEnd) == l

\* the entry switch without its case NODE_STATUS_SLOTS
RecoverableStatus_noSlots ==
    { NODE_STATUS_INIT, NODE_STATUS_CATCHUP, NODE_STATUS_CONNECT_BACK }

\* the entry switch without its default branch
RecoverableStatus_noDefault == AllStatus

\* the statuses pglogical_init_replica accepts at entry
RecoverableStatus ==
    { NODE_STATUS_INIT, NODE_STATUS_SLOTS, NODE_STATUS_CATCHUP,
      NODE_STATUS_CONNECT_BACK }

\* the status each phase persists when it is done
InitPhaseNext == NODE_STATUS_SYNC_SCHEMA
SyncSchemaNext == NODE_STATUS_SLOTS
\* the SLOTS block writing the status of the block after the next
SlotsNext_skip == NODE_STATUS_CONNECT_BACK
SlotsNext == NODE_STATUS_CATCHUP
CatchupNext == NODE_STATUS_CONNECT_BACK
\* the CONNECT_BACK block writing status before it is set to READY
ConnectBackNext_stale == NODE_STATUS_CONNECT_BACK
ConnectBackNext == NODE_STATUS_READY

\* the role switch accepting every role
RoleSupported_any(r) == TRUE

\* switch (target->role) of the CATCHUP and CONNECT_BACK blocks
RoleSupported(r) == r = NODE_ROLE_SUBSCRIBER

\* the if (status == ...) blocks of pglogical_init_replica, in program order
Blocks ==
    << [cond |-> NODE_STATUS_INIT, at |-> "start_xact"],
       [cond |-> NODE_STATUS_SLOTS, at |-> "slots"],
       [cond |-> NODE_STATUS_CATCHUP, at |-> "catchup"],
       [cond |-> NODE_STATUS_CONNECT_BACK, at |-> "connect_back"] >>

\* the blocks entered without testing status
Dispatch_untested(st, k) ==
    IF k > Len(Blocks) THEN "returned" ELSE Blocks[k].at

RECURSIVE Dispatch(_, _)
\* where control goes from before block k with local status st
Dispatch(st, k) ==
    IF k > Len(Blocks) THEN "returned"
    ELSE IF st = Blocks[k].cond THEN Blocks[k].at
    ELSE Dispatch(st, k + 1)

\* the row copy placed before the pre-data restore
SyncSchemaSteps_copyFirst ==
    << "dump_structure", "copy_node_data", "restore_pre", "restore_post",
       "set_slots" >>

\* the steps of the schema synchronisation, in program order
SyncSchemaSteps ==
    << "dump_structure", "restore_pre", "copy_node_data", "restore_post",
       "set_slots" >>

\* the step that follows step p
After(p) ==
    LET i == CHOOSE j \in 1..Len(SyncSchemaSteps) : SyncSchemaSteps[j] = p
    IN  SyncSchemaSteps[i + 1]

\* PQputCopyData given one byte less than was read
PutArg_short(buf, bytes) == SubSeq(buf, 1, bytes - 1)

\* what copy_table_data hands to PQputCopyData: the first bytes of copybuf
PutArg(buf, bytes) == SubSeq(buf, 1, bytes)

\* a failed COMMIT treated like the failed ROLLBACK, as a warning
CommitFailed_warn(res) == FALSE

\* the test of copy_node_data on the result of COMMIT
CommitFailed(res) == res # "PGRES_COMMAND_OK"

\* the return value of PQputCopyData ignored
PutFailed_never(rc) == FALSE

\* the test of copy_table_data on PQputCopyData's return value
PutFailed(rc) == rc # 1

(* ------------------------------- Init ---------------------------------- *)

\* the catalog state a node with persisted status s has been brought to
Reached(s) == s \in RecognizedStatus /\ Rank(s) >= Rank(NODE_STATUS_SYNC_SCHEMA)

\* the target's tables after a completed copy_node_data
Copied(sets) ==
    LET tl == get_copy_tables(sets)
    IN  [r \in RelNames |->
            IF \E i \in 1..Len(tl) : tl[i].relname = r
            THEN ExportStream(r) ELSE << >>]

Init ==
    /\ stored \in AllStatus
    /\ role \in { NODE_ROLE_SUBSCRIBER, NODE_ROLE_OTHER }
    /\ replication_sets \in { [i \in 1..Len(l) |-> [name |-> l[i]]] : l \in ReplicationSetLists }
    /\ walPos \in 1..MaxLsn
    /\ remote \in IF stored = NODE_STATUS_READY
                  THEN { NODE_STATUS_INIT, NODE_STATUS_READY }
                  ELSE { NODE_STATUS_INIT }
    /\ slot = IF Reached(stored) THEN [exists |-> TRUE, lsn |-> 1, snap |-> SnapshotId(1)] ELSE NoSlot
    /\ ro = IF Reached(stored) THEN [exists |-> TRUE, lsn |-> 1] ELSE NoOrigin
    /\ targetSchema = IF stored \in RecognizedStatus /\ Rank(stored) >= Rank(NODE_STATUS_SLOTS)
                      THEN { "pre-data", "post-data" } ELSE { }
    /\ targetData = IF stored \in RecognizedStatus /\ Rank(stored) >= Rank(NODE_STATUS_SLOTS)
                    THEN Copied(replication_sets) ELSE EmptyTables
    /\ dumpSnap = IF Reached(stored) /\ stored # NODE_STATUS_SYNC_SCHEMA
                  THEN SnapshotId(1) ELSE 0
    /\ statusLog = << >>
    /\ pc = "idle"
    /\ status = NODE_STATUS_OTHER
    /\ entry = NODE_STATUS_OTHER
    /\ result = "none"
    /\ xact = NoXact
    /\ XactLastCommitEnd = 0
    /\ lsn = 0
    /\ snapshot = 0
    /\ version = 0
    /\ replConn = FALSE
    /\ originConn = FALSE
    /\ originTx = "none"
    /\ originSnap = 0
    /\ targetConn = FALSE
    /\ targetTx = "none"
    /\ tables = << >>
    /\ tblIdx = 0
    /\ readPos = 0
    /\ copybuf = << >>
    /\ targetBuf = EmptyTables
    /\ cancel = FALSE
    /\ did = { }
    /\ advCount = 0
    /\ copyFailed = FALSE
    /\ crashedAt = "none"
    /\ resumeOf = "none"

\* the origin can still hand out snapshot s: the session that exported it
\* with the slot is open and has run no other command
Importable(s) == replConn /\ slot.exists /\ slot.snap = s

(* ------------------------ raising and dying ---------------------------- *)

\* elog(ERROR) / elog(FATAL): control leaves pglogical_init_replica, the
\* local transaction is aborted; libpq connections are not closed
Raise(kind) ==
    /\ pc' = "failed"
    /\ result' = kind
    /\ xact' = NoXact

\* set_node_status(target->id, s)
set_node_status(s) ==
    /\ stored' = s
    /\ statusLog' = Append(statusLog, << stored, s >>)

\* what the servers do when the worker's connections go away
Disconnected ==
    /\ replConn' = FALSE
    /\ originConn' = FALSE
    /\ targetConn' = FALSE
    /\ originTx' = IF originTx = "open" THEN "aborted" ELSE originTx
    /\ targetTx' = IF targetTx = "open" THEN "aborted" ELSE targetTx
    /\ targetBuf' = EmptyTables
    /\ copybuf' = << >>
    /\ UNCHANGED << originSnap, tables, tblIdx, readPos >>

\* positions reached right after a set_node_status call
AfterWrite ==
    { "dump_structure", "slots", "catchup", "connect_back", "connect_origin" }

Running == pc \notin { "idle", "failed", "returned" }

(* ------------------------ pglogical_init_replica ----------------------- *)

\* the caller builds conn from the catalog and calls pglogical_init_replica;
\* status = target->status
Invoke ==
    /\ pc = "idle"
    /\ pc' = "check_status"
    /\ status' = stored
    /\ entry' = stored
    /\ result' = "none"
    /\ did' = { }
    /\ advCount' = 0
    /\ copyFailed' = FALSE
    /\ resumeOf' = crashedAt
    /\ crashedAt' = "none"
    /\ lsn' = 0
    /\ snapshot' = 0
    /\ version' = 0
    /\ originConn' = FALSE
    /\ originTx' = "none"
    /\ originSnap' = 0
    /\ targetConn' = FALSE
    /\ targetTx' = "none"
    /\ tables' = << >>
    /\ tblIdx' = 0
    /\ readPos' = 0
    /\ copybuf' = << >>
    /\ targetBuf' = EmptyTables
    /\ UNCHANGED << cfg, catalog, originSrv, target, remote, ro, xact,
                    XactLastCommitEnd, replConn, cancel >>

\* switch (status) at entry
CheckStatus ==
    /\ pc = "check_status"
    /\ IF status \in RecoverableStatus
       THEN /\ pc' = Dispatch(status, 1)
            /\ result' = IF pc' = "returned" THEN "ok" ELSE result
            /\ UNCHANGED xact
       ELSE Raise("ERROR_nonrecoverable")
    /\ UNCHANGED << cfg, catalog, originSrv, target, locals, hist, copyvars,
                    remote, ro, XactLastCommitEnd, replConn, cancel >>

\* StartTransactionCommand(); gen_slot_name(...)
StartTransaction ==
    /\ pc = "start_xact"
    /\ xact' = [NoXact EXCEPT !.open = TRUE]
    /\ pc' = "connect_repl"
    /\ UNCHANGED << cfg, catalog, originSrv, target, locals, hist, copyvars,
                    remote, result, ro, XactLastCommitEnd, replConn, cancel >>

\* origin_conn_repl = pg_connect_replica(...)
ConnectReplica ==
    /\ pc = "connect_repl"
    /\ \E ok \in BOOLEAN :
         IF ok
         THEN /\ replConn' = TRUE
              /\ pc' = "create_slot"
              /\ did' = did \cup { "connect" }
              /\ UNCHANGED << result, xact >>
         ELSE /\ Raise("FATAL_connect")
              /\ UNCHANGED << replConn, did >>
    /\ UNCHANGED << cfg, catalog, originSrv, target, locals, copyvars, remote,
                    ro, XactLastCommitEnd, cancel, entry, advCount, copyFailed,
                    crashedAt, resumeOf >>

\* snapshot = ensure_replication_slot_snapshot(origin_conn_repl, &slot_name, &lsn)
CreateSlot ==
    /\ pc = "create_slot"
    /\ \E ok \in BOOLEAN :
         \* the origin creates the slot unless one of that name exists
         LET created == ok /\ ~slot.exists
             res == IF created THEN "PGRES_TUPLES_OK" ELSE "PGRES_FATAL_ERROR"
             row == IF created
                    THEN << "slot_name", walPos, SnapshotId(walPos) >>
                    ELSE << "", 0, 0 >>
         IN  /\ slot' = IF created
                        THEN [exists |-> TRUE, lsn |-> row[2], snap |-> row[3]]
                        ELSE slot
             /\ did' = did \cup { IF created THEN "create_slot" ELSE "slot_failed" }
             /\ IF SlotCommandFailed(res)
                THEN /\ Raise("FATAL_slot")
                     /\ UNCHANGED << lsn, snapshot >>
                ELSE /\ lsn' = ReplyLsn(row)
                     /\ snapshot' = ReplySnapshot(row)
                     /\ pc' = "ensure_origin"
                     /\ UNCHANGED << result, xact >>
    /\ UNCHANGED << cfg, catalog, walPos, target, status, version, copyvars,
                    remote, ro, XactLastCommitEnd, replConn, cancel, entry,
                    advCount, copyFailed, crashedAt, resumeOf >>

\* originid = ensure_replication_origin(&slot_name)
EnsureOrigin ==
    /\ pc = "ensure_origin"
    /\ IF ro.exists
       THEN UNCHANGED << xact, did >>
       ELSE /\ xact' = [xact EXCEPT !.created = TRUE]
            /\ did' = did \cup { "origin_create" }
    /\ pc' = "advance_origin"
    /\ UNCHANGED << cfg, catalog, originSrv, target, locals, copyvars, remote,
                    result, ro, XactLastCommitEnd, replConn, cancel, entry,
                    advCount, copyFailed, crashedAt, resumeOf >>

\* replorigin_advance(originid, lsn, XactLastCommitEnd, true, true)
AdvanceOrigin ==
    /\ pc = "advance_origin"
    /\ xact' = [xact EXCEPT !.advanced = TRUE,
                            !.lsn = AdvanceTo(lsn, XactLastCommitEnd)]
    /\ advCount' = advCount + 1
    /\ did' = did \cup { "origin_advance" }
    /\ pc' = "commit_xact"
    /\ UNCHANGED << cfg, catalog, originSrv, target, locals, copyvars, remote,
                    result, ro, XactLastCommitEnd, replConn, cancel, entry,
                    copyFailed, crashedAt, resumeOf >>

\* PQfinish(origin_conn_repl) added before the commit
CommitTransaction_finish ==
    /\ pc = "commit_xact"
    /\ ro' = [exists |-> ro.exists \/ xact.created,
              lsn |-> IF xact.advanced THEN xact.lsn ELSE ro.lsn]
    /\ xact' = NoXact
    /\ XactLastCommitEnd' = 1
    /\ replConn' = FALSE
    /\ pc' = "set_sync_schema"
    /\ UNCHANGED << cfg, catalog, originSrv, target, locals, hist, copyvars,
                    remote, result, cancel >>

\* CommitTransactionCommand()
CommitTransaction ==
    /\ pc = "commit_xact"
    /\ ro' = [exists |-> ro.exists \/ xact.created,
              lsn |-> IF xact.advanced THEN xact.lsn ELSE ro.lsn]
    /\ xact' = NoXact
    /\ XactLastCommitEnd' = 1
    /\ pc' = "set_sync_schema"
    /\ UNCHANGED << cfg, catalog, originSrv, target, locals, hist, copyvars,
                    remote, result, replConn, cancel >>

\* set_node_status(target->id, NODE_STATUS_SYNC_SCHEMA); status = ...
SetSyncSchema ==
    /\ pc = "set_sync_schema"
    /\ set_node_status(InitPhaseNext)
    /\ status' = InitPhaseNext
    /\ did' = did \cup { "set_node_status" }
    /\ pc' = SyncSchemaSteps[1]
    /\ UNCHANGED << cfg, originSrv, target, lsn, snapshot, version, copyvars,
                    remote, result, ro, xact, XactLastCommitEnd, replConn,
                    cancel, entry, advCount, copyFailed, crashedAt, resumeOf >>

\* dump_structure(conn, snapshot)
DumpStructure ==
    /\ pc = "dump_structure"
    /\ \E out \in ExecOutcomes, sysok \in BOOLEAN :
         LET r == find_other_exec_version(out)
         IN  /\ version' = r.version
             /\ IF r.rc # 0
                THEN Raise("ERROR_find_exec") /\ UNCHANGED << dumpSnap, did >>
                ELSE IF VersionMismatch(r.version)
                THEN Raise("ERROR_tool_version") /\ UNCHANGED << dumpSnap, did >>
                ELSE IF ~(sysok /\ Importable(snapshot))
                THEN /\ Raise("ERROR_command")
                     /\ did' = did \cup { "dump" }
                     /\ UNCHANGED dumpSnap
                ELSE /\ dumpSnap' = snapshot
                     /\ did' = did \cup { "dump" }
                     /\ pc' = After("dump_structure")
                     /\ UNCHANGED << result, xact >>
    /\ UNCHANGED << cfg, catalog, originSrv, targetData, targetSchema, status,
                    lsn, snapshot, copyvars, remote, ro, XactLastCommitEnd,
                    replConn, cancel, entry, advCount, copyFailed, crashedAt,
                    resumeOf >>

\* restore_structure(conn, section), called at position here
restore_structure(section, here, tag) ==
    /\ pc = here
    /\ \E out \in ExecOutcomes, sysok \in BOOLEAN :
         LET r == find_other_exec_version(out)
         IN  IF r.rc # 0
             THEN Raise("ERROR_find_exec") /\ UNCHANGED << targetSchema, did >>
             ELSE IF VersionMismatch(r.version)
             THEN Raise("ERROR_tool_version") /\ UNCHANGED << targetSchema, did >>
             ELSE IF ~sysok
             THEN /\ Raise("ERROR_command")
                  /\ did' = did \cup { tag }
                  /\ UNCHANGED targetSchema
             ELSE /\ targetSchema' = targetSchema \cup { section }
                  /\ did' = did \cup { tag }
                  /\ pc' = After(here)
                  /\ UNCHANGED << result, xact >>
    /\ UNCHANGED << cfg, catalog, originSrv, targetData, dumpSnap, locals,
                    copyvars, remote, ro, XactLastCommitEnd, replConn, cancel,
                    entry, advCount, copyFailed, crashedAt, resumeOf >>

\* restore_structure(conn, "pre-data")
RestorePre == restore_structure("pre-data", "restore_pre", "restore_pre")

\* restore_structure(conn, "post-data")
RestorePost == restore_structure("post-data", "restore_post", "restore_post")

\* set_node_status(target->id, NODE_STATUS_SLOTS); status = ...
SetSlots ==
    /\ pc = "set_slots"
    /\ set_node_status(SyncSchemaNext)
    /\ status' = SyncSchemaNext
    /\ did' = did \cup { "set_node_status" }
    /\ pc' = Dispatch(status', 2)
    /\ result' = IF pc' = "returned" THEN "ok" ELSE result
    /\ UNCHANGED << cfg, originSrv, target, lsn, snapshot, version, copyvars,
                    remote, ro, xact, XactLastCommitEnd, replConn, cancel,
                    entry, advCount, copyFailed, crashedAt, resumeOf >>

\* if (status == NODE_STATUS_SLOTS) { make_other_slots(target); ... }
Slots ==
    /\ pc = "slots"
    /\ set_node_status(SlotsNext)
    /\ status' = SlotsNext
    /\ did' = did \cup { "set_node_status" }
    /\ pc' = Dispatch(status', 3)
    /\ result' = IF pc' = "returned" THEN "ok" ELSE result
    /\ UNCHANGED << cfg, originSrv, target, lsn, snapshot, version, copyvars,
                    remote, ro, xact, XactLastCommitEnd, replConn, cancel,
                    entry, advCount, copyFailed, crashedAt, resumeOf >>

\* if (status == NODE_STATUS_CATCHUP) { switch (target->role) ... }
Catchup ==
    /\ pc = "catchup"
    /\ IF RoleSupported(role)
       THEN /\ set_node_status(CatchupNext)
            /\ status' = CatchupNext
            /\ did' = did \cup { "set_node_status" }
            /\ pc' = Dispatch(status', 4)
            /\ result' = IF pc' = "returned" THEN "ok" ELSE result
            /\ UNCHANGED xact
       ELSE /\ Raise("ERROR_role")
            /\ UNCHANGED << catalog, status, did >>
    /\ UNCHANGED << cfg, originSrv, target, lsn, snapshot, version, copyvars,
                    remote, ro, XactLastCommitEnd, replConn, cancel, entry,
                    advCount, copyFailed, crashedAt, resumeOf >>

\* the CONNECT_BACK block going to the origin without the local write
ConnectBack_noWrite ==
    /\ pc = "connect_back"
    /\ IF RoleSupported(role)
       THEN /\ status' = ConnectBackNext
            /\ pc' = "connect_origin"
            /\ UNCHANGED << catalog, did, result, xact >>
       ELSE /\ Raise("ERROR_role")
            /\ UNCHANGED << catalog, status, did >>
    /\ UNCHANGED << cfg, originSrv, target, lsn, snapshot, version, copyvars,
                    remote, ro, XactLastCommitEnd, replConn, cancel, entry,
                    advCount, copyFailed, crashedAt, resumeOf >>

\* if (status == NODE_STATUS_CONNECT_BACK) { ... set_node_status(..., status);
ConnectBack ==
    /\ pc = "connect_back"
    /\ IF RoleSupported(role)
       THEN /\ status' = ConnectBackNext
            /\ set_node_status(status')
            /\ did' = did \cup { "set_node_status" }
            /\ pc' = "connect_origin"
            /\ UNCHANGED << result, xact >>
       ELSE /\ Raise("ERROR_role")
            /\ UNCHANGED << catalog, status, did >>
    /\ UNCHANGED << cfg, originSrv, target, lsn, snapshot, version, copyvars,
                    remote, ro, XactLastCommitEnd, replConn, cancel, entry,
                    advCount, copyFailed, crashedAt, resumeOf >>

\* set_remote_node_status(conn, name, s): the origin records s for the node
set_remote_node_status(s) == remote' = s

\* origin_conn = pg_connect(...); set_remote_node_status(...); PQfinish(...)
PushRemoteStatus ==
    /\ pc = "connect_origin"
    /\ \E outcome \in { "ok", "noconn", "rejected" } :
         IF outcome = "ok"
         THEN /\ set_remote_node_status(status)
              /\ did' = did \cup { "connect", "push_remote" }
              /\ pc' = "returned"
              /\ result' = "ok"
              /\ UNCHANGED xact
         ELSE IF outcome = "noconn"
         THEN /\ Raise("FATAL_connect")
              /\ UNCHANGED << remote, did >>
         ELSE /\ Raise("ERROR_remote_status")
              /\ did' = did \cup { "connect" }
              /\ UNCHANGED remote
    /\ UNCHANGED << cfg, catalog, originSrv, target, locals, copyvars, ro,
                    XactLastCommitEnd, replConn, cancel, entry, advCount,
                    copyFailed, crashedAt, resumeOf >>

(* ---------------------------- copy_node_data --------------------------- *)

\* a loop without its CHECK_FOR_INTERRUPTS()
CheckForInterrupts_off(next) == pc' = next /\ UNCHANGED << result, xact >>

\* CHECK_FOR_INTERRUPTS(): raises when a cancel request is pending, else
\* control goes on to position next
CheckForInterrupts(next) ==
    IF cancel
    THEN Raise("ERROR_canceled")
    ELSE pc' = next /\ UNCHANGED << result, xact >>

\* origin_conn = pg_connect(...); start_copy_origin_tx(origin_conn, snapshot)
CopyConnectOrigin ==
    /\ pc = "copy_node_data"
    /\ \E outcome \in { "ok", "noconn", "begin_failed", "set_failed" } :
         IF outcome = "noconn"
         THEN /\ Raise("FATAL_connect")
              /\ UNCHANGED << originConn, originTx, originSnap, did >>
         ELSE /\ originConn' = TRUE
              /\ did' = did \cup { "connect", "copy_session" }
              /\ IF outcome = "ok" /\ Importable(snapshot)
                 THEN /\ originTx' = "open"
                      /\ originSnap' = snapshot
                      /\ pc' = "copy_get_tables"
                      /\ UNCHANGED << result, xact >>
                 ELSE /\ Raise("ERROR_begin_origin")
                      /\ originTx' = IF outcome = "begin_failed" THEN "none" ELSE "open"
                      /\ UNCHANGED originSnap
    /\ UNCHANGED << cfg, catalog, originSrv, target, locals, remote, ro,
                    XactLastCommitEnd, replConn, cancel, entry, advCount,
                    copyFailed, crashedAt, resumeOf, targetConn, targetTx,
                    tables, tblIdx, readPos, copybuf, targetBuf >>

\* tables = get_copy_tables(origin_conn, conn->replication_sets)
CopyGetTables ==
    /\ pc = "copy_get_tables"
    /\ \E ok \in BOOLEAN :
         IF ok
         THEN /\ tables' = get_copy_tables(replication_sets)
              /\ pc' = "copy_connect_target"
              /\ UNCHANGED << result, xact >>
         ELSE /\ Raise("ERROR_table_list")
              /\ UNCHANGED tables
    /\ UNCHANGED << cfg, catalog, originSrv, target, locals, hist, remote, ro,
                    XactLastCommitEnd, replConn, cancel, originConn, originTx,
                    originSnap, targetConn, targetTx, tblIdx, readPos, copybuf,
                    targetBuf >>

\* target_conn = pg_connect(...); start_copy_target_tx(target_conn, snapshot)
CopyConnectTarget ==
    /\ pc = "copy_connect_target"
    /\ \E outcome \in { "ok", "noconn", "begin_failed", "set_failed" } :
         IF outcome = "noconn"
         THEN /\ Raise("FATAL_connect")
              /\ UNCHANGED << targetConn, targetTx, tblIdx, did >>
         ELSE /\ targetConn' = TRUE
              /\ did' = did \cup { "connect", "copy_session" }
              /\ IF outcome = "ok"
                 THEN /\ targetTx' = "open"
                      /\ tblIdx' = 1
                      /\ pc' = "copy_table"
                      /\ UNCHANGED << result, xact >>
                 ELSE /\ Raise("ERROR_begin_target")
                      /\ targetTx' = IF outcome = "set_failed" THEN "open" ELSE "none"
                      /\ UNCHANGED tblIdx
    /\ UNCHANGED << cfg, catalog, originSrv, target, locals, remote, ro,
                    XactLastCommitEnd, replConn, cancel, entry, advCount,
                    copyFailed, crashedAt, resumeOf, originConn, originTx,
                    originSnap, tables, readPos, copybuf, targetBuf >>

\* foreach (lc, tables): copy_table_data up to the start of its while loop
CopyTable ==
    /\ pc = "copy_table"
    /\ IF tblIdx > Len(tables)
       THEN pc' = "copy_rollback" /\ UNCHANGED << result, xact, readPos >>
       ELSE \E outcome \in { "ok", "copy_to_failed", "copy_from_failed" } :
              IF outcome = "ok"
              THEN /\ readPos' = 0
                   /\ pc' = "copy_get"
                   /\ UNCHANGED << result, xact >>
              ELSE /\ Raise("ERROR_table_copy")
                   /\ UNCHANGED readPos
    /\ UNCHANGED << cfg, catalog, originSrv, target, locals, hist, remote, ro,
                    XactLastCommitEnd, replConn, cancel, originConn, originTx,
                    originSnap, targetConn, targetTx, tables, tblIdx, copybuf,
                    targetBuf >>

\* bytes = PQgetCopyData(origin_conn, &copybuf, false) and the test on it
CopyGetData ==
    /\ pc = "copy_get"
    /\ LET stream == ExportStream(tables[tblIdx].relname)
       IN  \E ok \in BOOLEAN :
             IF ~ok
             THEN /\ Raise("ERROR_copy_read")
                  /\ copyFailed' = TRUE
                  /\ UNCHANGED << readPos, copybuf >>
             ELSE IF readPos < Len(stream)
             THEN /\ copybuf' = << stream[readPos + 1] >>
                  /\ readPos' = readPos + 1
                  /\ pc' = "copy_put"
                  /\ UNCHANGED << result, xact, copyFailed >>
             ELSE /\ pc' = "copy_end"
                  /\ UNCHANGED << result, xact, copyFailed, readPos, copybuf >>
    /\ UNCHANGED << cfg, catalog, originSrv, target, locals, remote, ro,
                    XactLastCommitEnd, replConn, cancel, entry, did, advCount,
                    crashedAt, resumeOf, originConn, originTx, originSnap,
                    targetConn, targetTx, tables, tblIdx, targetBuf >>

\* PQputCopyData(target_conn, copybuf, bytes); PQfreemem; CHECK_FOR_INTERRUPTS.
\* The chunk enters the import stream only when libpq returned 1, whatever
\* the code then makes of the return value.
CopyPutData ==
    /\ pc = "copy_put"
    /\ \E rc \in { 1, -1 } :
         IF PutFailed(rc)
         THEN /\ Raise("ERROR_copy_write")
              /\ copyFailed' = TRUE
              /\ UNCHANGED << targetBuf, copybuf, did >>
         ELSE /\ IF rc = 1
                 THEN targetBuf' = [targetBuf EXCEPT
                                      ![tables[tblIdx].relname] =
                                          Append(@, PutArg(copybuf[1], Len(copybuf[1])))]
                 ELSE UNCHANGED targetBuf
              /\ copyFailed' = (copyFailed \/ rc # 1)
              /\ copybuf' = << >>
              /\ did' = did \cup { "copy_rows" }
              /\ CheckForInterrupts("copy_get")
    /\ UNCHANGED << cfg, catalog, originSrv, target, locals, remote, ro,
                    XactLastCommitEnd, replConn, cancel, entry, advCount,
                    crashedAt, resumeOf, originConn, originTx, originSnap,
                    targetConn, targetTx, tables, tblIdx, readPos >>

\* PQputCopyEnd(target_conn, NULL); then CHECK_FOR_INTERRUPTS of the foreach
CopyEnd ==
    /\ pc = "copy_end"
    /\ \E rc \in { 1, -1 } :
         IF rc # 1
         THEN /\ Raise("ERROR_copy_end")
              /\ copyFailed' = TRUE
              /\ UNCHANGED tblIdx
         ELSE /\ tblIdx' = tblIdx + 1
              /\ CheckForInterrupts("copy_table")
              /\ UNCHANGED copyFailed
    /\ UNCHANGED << cfg, catalog, originSrv, target, locals, remote, ro,
                    XactLastCommitEnd, replConn, cancel, entry, did, advCount,
                    crashedAt, resumeOf, originConn, originTx, originSnap,
                    targetConn, targetTx, tables, readPos, copybuf, targetBuf >>

\* PQexec(origin_conn, "ROLLBACK"); PQfinish(origin_conn)
CopyRollbackOrigin ==
    /\ pc = "copy_rollback"
    /\ \E ok \in BOOLEAN :
         /\ originTx' = IF ok THEN "rolledback" ELSE "aborted"
         /\ did' = IF ok THEN did ELSE did \cup { "rollback_failed" }
    /\ originConn' = FALSE
    /\ pc' = "copy_commit"
    /\ UNCHANGED << cfg, catalog, originSrv, target, locals, entry, advCount,
                    copyFailed, crashedAt, resumeOf, remote, ro, result, xact,
                    XactLastCommitEnd, replConn, cancel, originSnap,
                    targetConn, targetTx, tables, tblIdx, readPos, copybuf,
                    targetBuf >>

\* PQexec(target_conn, "COMMIT"); PQfinish(target_conn)
CopyCommitTarget ==
    /\ pc = "copy_commit"
    /\ \E res \in { "PGRES_COMMAND_OK", "PGRES_FATAL_ERROR" } :
         /\ IF res = "PGRES_COMMAND_OK"
            THEN /\ targetTx' = "committed"
                 /\ targetData' = [r \in RelNames |-> targetData[r] \o targetBuf[r]]
                 /\ did' = did \cup { "copy_commit" }
            ELSE /\ targetTx' = "aborted"
                 /\ did' = did \cup { "commit_failed" }
                 /\ UNCHANGED targetData
         /\ IF CommitFailed(res)
            THEN /\ Raise("ERROR_commit_target")
                 /\ UNCHANGED targetConn
            ELSE /\ targetConn' = FALSE
                 /\ pc' = After("copy_node_data")
                 /\ UNCHANGED << result, xact >>
    /\ targetBuf' = EmptyTables
    /\ UNCHANGED << cfg, catalog, originSrv, targetSchema, dumpSnap, locals,
                    remote, ro, XactLastCommitEnd, replConn, cancel, entry,
                    advCount, copyFailed, crashedAt, resumeOf, originConn,
                    originTx, originSnap, tables, tblIdx, readPos, copybuf >>

(* --------------------------- the environment --------------------------- *)

\* the worker process ends after pglogical_init_replica raised or returned
ProcessExit ==
    /\ pc \in { "failed", "returned" }
    /\ pc' = "idle"
    /\ Disconnected
    /\ xact' = NoXact
    /\ XactLastCommitEnd' = 0
    /\ cancel' = FALSE
    /\ UNCHANGED << cfg, catalog, originSrv, target, locals, hist, remote,
                    result, ro >>

\* the worker process (or the whole target server) dies
Crash ==
    /\ Running
    /\ pc' = "idle"
    /\ result' = "crash"
    /\ crashedAt' = IF pc \in AfterWrite /\ "set_node_status" \in did
                    THEN stored ELSE "none"
    /\ Disconnected
    /\ xact' = NoXact
    /\ XactLastCommitEnd' = 0
    /\ cancel' = FALSE
    /\ UNCHANGED << cfg, catalog, originSrv, target, locals, remote, ro,
                    entry, did, advCount, copyFailed, resumeOf >>

\* an operator asks the worker to cancel
RequestCancel ==
    /\ Running
    /\ ~cancel
    /\ cancel' = TRUE
    /\ UNCHANGED << cfg, catalog, originSrv, target, locals, hist, copyvars,
                    remote, pc, result, ro, xact, XactLastCommitEnd, replConn >>

\* other sessions write on the origin server
OriginWrite ==
    /\ walPos < MaxLsn
    /\ walPos' = walPos + 1
    /\ UNCHANGED << cfg, catalog, slot, target, locals, hist, copyvars, remote,
                    pc, result, ro, xact, XactLastCommitEnd, replConn, cancel >>

Next ==
    \/ Invoke
    \/ CheckStatus
    \/ StartTransaction
    \/ ConnectReplica
    \/ CreateSlot
    \/ EnsureOrigin
    \/ AdvanceOrigin
    \/ CommitTransaction
    \/ SetSyncSchema
    \/ DumpStructure
    \/ RestorePre
    \/ CopyConnectOrigin
    \/ CopyGetTables
    \/ CopyConnectTarget
    \/ CopyTable
    \/ CopyGetData
    \/ CopyPutData
    \/ CopyEnd
    \/ CopyRollbackOrigin
    \/ CopyCommitTarget
    \/ RestorePost
    \/ SetSlots
    \/ Slots
    \/ Catchup
    \/ ConnectBack
    \/ PushRemoteStatus
    \/ ProcessExit
    \/ Crash
    \/ RequestCancel
    \/ OriginWrite

Spec == Init /\ [][Next]_vars

TypeOK ==
    /\ stored \in AllStatus
    /\ pc \in { "idle", "failed", "returned", "check_status", "start_xact",
                "connect_repl", "create_slot", "ensure_origin",
                "advance_origin", "commit_xact", "set_sync_schema",
                "dump_structure", "restore_pre", "copy_node_data",
                "copy_get_tables", "copy_connect_target", "copy_table",
                "copy_get", "copy_put", "copy_end", "copy_rollback",
                "copy_commit", "restore_post", "set_slots", "slots", "catchup",
                "connect_back", "connect_origin" }
    /\ originTx \in { "none", "open", "rolledback", "aborted" }
    /\ targetTx \in { "none", "open", "committed", "aborted" }

(* ------------------------------ properties ----------------------------- *)

\* the invocation has passed the entry switch
PastEntry == pc \notin { "idle", "check_status" }

\* this invocation resumes a subscriber after a crash right after a write
Resumed ==
    /\ resumeOf # "none"
    /\ entry = resumeOf
    /\ role = NODE_ROLE_SUBSCRIBER

\* the phase (rank of its status) a position of the function belongs to
PhaseAt(p) ==
    IF p \in { "start_xact", "connect_repl", "create_slot", "ensure_origin",
               "advance_origin", "commit_xact", "set_sync_schema" } THEN 1
    ELSE IF p = "slots" THEN 3
    ELSE IF p = "catchup" THEN 4
    ELSE IF p \in { "connect_back", "connect_origin" } THEN 5
    ELSE 2

\* C1 as claimed: after a crash right after any persisted status S, the next
\* invocation for the subscriber is accepted at entry and, when it returns,
\* the persisted status is READY.
C1_ResumeAtEveryStatus ==
    (Resumed /\ PastEntry) =>
        /\ result # "ERROR_nonrecoverable"
        /\ pc = "returned" => stored = NODE_STATUS_READY

\* C1 amended: after a crash right after S was persisted, the next invocation
\* for the subscriber is accepted, runs no phase before S, fails only when a
\* connection or the remote status push fails, and returns with persisted
\* status READY, if S is SLOTS, CATCHUP or CONNECT_BACK; if S is SYNC_SCHEMA
\* or READY it is rejected at entry with the nonrecoverable-step error and
\* the persisted status stays S.
C1_ResumeAtRecoverable ==
    (Resumed /\ PastEntry) =>
        IF resumeOf \in { NODE_STATUS_SLOTS, NODE_STATUS_CATCHUP,
                          NODE_STATUS_CONNECT_BACK }
        THEN /\ Running => PhaseAt(pc) >= Rank(resumeOf)
             /\ Rank(stored) >= Rank(resumeOf)
             /\ did \subseteq { "set_node_status", "connect", "push_remote" }
             /\ pc = "failed" => result \in { "FATAL_connect", "ERROR_remote_status" }
             /\ pc = "returned" => stored = NODE_STATUS_READY
        ELSE /\ pc = "failed"
             /\ result = "ERROR_nonrecoverable"
             /\ stored = resumeOf
             /\ did = { }

\* witness of C1: an invocation resumed at SLOTS after a crash has returned
C1_Witness ==
    /\ Resumed
    /\ resumeOf = NODE_STATUS_SLOTS
    /\ pc = "returned"
    /\ stored = NODE_STATUS_READY

\* C2: an invocation entered with a status outside the six recognized phases
\* fails with the nonrecoverable-step error and has performed no side effect:
\* no connection, slot, origin, dump, restore, copy or status write.
C2_UnknownStatusRejected ==
    (entry \notin RecognizedStatus /\ PastEntry) =>
        /\ pc = "failed"
        /\ result = "ERROR_nonrecoverable"
        /\ did = { }
        /\ advCount = 0
        /\ ~replConn /\ ~originConn /\ ~targetConn
        /\ ~xact.open
        /\ stored = entry
        /\ statusLog = << >>

\* witness of C2: an invocation entered with an unrecognized status has failed
C2_Witness ==
    /\ entry = NODE_STATUS_OTHER
    /\ stored = NODE_STATUS_OTHER
    /\ pc = "failed"

\* C3: every set_node_status write stores the immediate successor of the
\* status persisted just before it, so the written values strictly increase
\* in the order INIT < SYNC_SCHEMA < SLOTS < CATCHUP < CONNECT_BACK < READY.
C3_WritesAreSuccessors ==
    /\ \A i \in 1..Len(statusLog) :
          /\ statusLog[i][1] \in RecognizedStatus
          /\ statusLog[i][2] \in RecognizedStatus
          /\ Rank(statusLog[i][2]) = Rank(statusLog[i][1]) + 1
    /\ \A i, j \in 1..Len(statusLog) :
          i < j => Rank(statusLog[i][2]) < Rank(statusLog[j][2])

\* witness of C3: all five writes happened, the last ones after a crash
C3_Witness ==
    /\ Len(statusLog) = 5
    /\ resumeOf # "none"
    /\ stored = NODE_STATUS_READY

\* C4: an invocation advances the replication origin at most once, and once
\* when it has run the INIT phase; the LSN it is advanced to is the start LSN
\* of the slot this invocation created, and no other value is recorded.
C4_OriginAdvancedToSlotLsn ==
    /\ advCount <= 1
    /\ "origin_advance" \in did =>
          /\ advCount = 1
          /\ "create_slot" \in did
          /\ lsn = slot.lsn
    /\ xact.advanced => xact.lsn = slot.lsn
    /\ (entry = NODE_STATUS_INIT /\ "set_node_status" \in did) => advCount = 1
    /\ ro.exists => slot.exists /\ ro.lsn = slot.lsn

\* witness of C4: the origin was advanced by this invocation to the LSN of a
\* slot created after the origin server's WAL had moved on
C4_Witness ==
    /\ "origin_advance" \in did
    /\ advCount = 1
    /\ ro.exists
    /\ ro.lsn = slot.lsn
    /\ ro.lsn > 1

\* C5: whenever no invocation is running, either the slot exists and the
\* local origin exists advanced to the slot's start LSN, or neither the slot
\* nor the origin is recorded.
C5_InitPhaseAtomic ==
    pc = "idle" =>
        \/ slot.exists /\ ro.exists /\ ro.lsn = slot.lsn
        \/ ~slot.exists /\ ~ro.exists

\* C6: in an invocation that starts at INIT, the pre-data restore runs only
\* after a successful dump, a copy session is opened and rows are copied only
\* after the pre-data restore succeeded, the post-data restore runs only
\* after the target copy transaction committed, and SLOTS is persisted only
\* after the post-data restore succeeded.
C6_SyncSchemaOrder ==
    entry = NODE_STATUS_INIT =>
        /\ "restore_pre" \in did => "dump" \in did /\ dumpSnap = snapshot /\ dumpSnap # 0
        /\ "copy_session" \in did => "pre-data" \in targetSchema
        /\ "copy_rows" \in did => "pre-data" \in targetSchema
        /\ targetBuf # EmptyTables => "pre-data" \in targetSchema
        /\ "restore_post" \in did => targetTx = "committed" /\ "copy_commit" \in did
        /\ (stored \in RecognizedStatus /\ Rank(stored) >= Rank(NODE_STATUS_SLOTS)) =>
              /\ "post-data" \in targetSchema
              /\ "restore_post" \in did

\* witness of C6: SLOTS was persisted by an invocation that started at INIT
\* and copied rows
C6_Witness ==
    /\ entry = NODE_STATUS_INIT
    /\ stored = NODE_STATUS_SLOTS
    /\ "copy_rows" \in did
    /\ targetData["accounts"] # << >>

\* C7: once control has left copy_node_data, by return or by error, neither
\* the origin-side nor the target-side copy transaction is open.
C7_CopyTransactionsReleased ==
    ("copy_session" \in did /\ pc \in { "failed", "returned", "restore_post", "set_slots" }) =>
        /\ originTx # "open"
        /\ targetTx # "open"

\* C8: when a table copy failed mid-stream in this invocation, the target
\* copy transaction is not committed, no copied row is durable on the target,
\* and the persisted status stays SYNC_SCHEMA.
C8_FailedCopyNotCommitted ==
    copyFailed =>
        /\ targetTx # "committed"
        /\ "copy_commit" \notin did
        /\ targetData = EmptyTables
        /\ stored = NODE_STATUS_SYNC_SCHEMA
        /\ ~Running

\* witness of C8: the second table failed after rows of the first were sent
C8_Witness ==
    /\ copyFailed
    /\ pc = "failed"
    /\ tblIdx = 2
    /\ targetBuf["accounts"] # << >>

\* pg_dump reported a major version other than the server's
DumpToolMismatch ==
    /\ version # 0
    /\ MajorOf(version) # MajorOf(PG_VERSION_NUM)

\* what holds of data in C9: no dump, no restore, no copy session
NoDataTouched ==
    /\ result = "ERROR_tool_version"
    /\ pc \in { "failed", "idle" }
    /\ did \cap { "dump", "restore_pre", "restore_post", "copy_session",
                   "copy_rows", "copy_commit" } = { }
    /\ dumpSnap = 0
    /\ targetSchema = { }
    /\ targetData = EmptyTables

\* C9 as claimed: when pg_dump's major version differs from the server's,
\* the invocation fails before dump, restore or copy, and the persisted
\* status is the one the invocation was entered with.
C9_StatusAsAtEntry ==
    DumpToolMismatch => NoDataTouched /\ stored = entry

\* C9 amended: when pg_dump's major version differs from the server's, the
\* invocation fails before dump, restore or copy, and the persisted status is
\* SYNC_SCHEMA, written by this invocation at the end of its INIT phase; it
\* is neither the INIT the invocation was entered with nor SLOTS.
C9_StatusSyncSchema ==
    DumpToolMismatch =>
        /\ NoDataTouched
        /\ entry = NODE_STATUS_INIT
        /\ stored = NODE_STATUS_SYNC_SCHEMA

\* witness of C9: dump_structure has raised on a pg_dump of another major
C9_Witness ==
    /\ DumpToolMismatch
    /\ pc = "failed"
    /\ result = "ERROR_tool_version"

\* C10: when an invocation has returned without error, the persisted status
\* and the origin's view of the target's status are both READY.
C10_ReturnedMeansReady ==
    pc = "returned" =>
        /\ result = "ok"
        /\ stored = NODE_STATUS_READY
        /\ remote = NODE_STATUS_READY

\* witness of C10: an invocation entered at INIT has returned
C10_Witness ==
    /\ pc = "returned"
    /\ entry = NODE_STATUS_INIT
    /\ remote = NODE_STATUS_READY

\* C11: for a target whose role is not subscriber, no invocation writes
\* CONNECT_BACK or READY or pushes a status to the origin; such an invocation
\* never gets past the role switch, and when the switch has raised the
\* persisted status is the one the phase was reached with (CATCHUP or
\* CONNECT_BACK).
C11_OtherRoleNeverReady ==
    role # NODE_ROLE_SUBSCRIBER =>
        /\ \A i \in 1..Len(statusLog) :
              statusLog[i][2] \notin { NODE_STATUS_CONNECT_BACK, NODE_STATUS_READY }
        /\ "push_remote" \notin did
        /\ pc \notin { "connect_origin", "returned" }
        /\ pc = "connect_back" => entry = NODE_STATUS_CONNECT_BACK
        /\ (PastEntry /\ entry \in RecoverableStatus /\ ~Running) =>
              /\ pc = "failed"
              /\ result = "ERROR_role" =>
                    /\ stored = status
                    /\ stored \in { NODE_STATUS_CATCHUP, NODE_STATUS_CONNECT_BACK }
                    /\ Rank(stored) >= Rank(entry)

\* witness of C11: a bootstrap from INIT for a target of another role got to
\* the CATCHUP phase and was refused there
C11_Witness ==
    /\ role = NODE_ROLE_OTHER
    /\ entry = NODE_STATUS_INIT
    /\ pc = "failed"
    /\ result = "ERROR_role"
    /\ stored = NODE_STATUS_CATCHUP

\* the tables that are members of at least one set of the list
TablesOfSets(sets) ==
    { CatalogTables[i].relname : i \in
        { j \in 1..Len(CatalogTables) :
            \E k \in 1..Len(sets) : CatalogTables[j].set_name = sets[k].name } }

\* C12: the tables get_copy_tables returns are exactly the tables whose
\* set_name equals the name of at least one set of conn->replication_sets.
C12_TablesOfListedSets ==
    pc = "copy_connect_target" =>
        { tables[i].relname : i \in 1..Len(tables) } = TablesOfSets(replication_sets)

\* positions inside the while loop of copy_table_data and right after it
InTableCopy == pc \in { "copy_get", "copy_put", "copy_end" }

\* C13: while a table is copied the chunks pushed to the target, followed by
\* the chunk in hand, are the chunks pulled from the origin so far, in order;
\* end-of-input is sent only after the whole export stream was pulled; every
\* table copied without error has on the target exactly its export stream,
\* and so do the committed tables after COMMIT.
C13_ChunksCopiedInOrder ==
    /\ InTableCopy =>
          LET rel == tables[tblIdx].relname
          IN  /\ targetBuf[rel] \o copybuf = SubSeq(ExportStream(rel), 1, readPos)
              /\ pc = "copy_end" => readPos = Len(ExportStream(rel))
    /\ (InTableCopy \/ pc \in { "copy_table", "copy_rollback", "copy_commit" }) =>
          \A i \in 1..Len(tables) :
              i < tblIdx => targetBuf[tables[i].relname] = ExportStream(tables[i].relname)
    /\ pc \in { "copy_rollback", "copy_commit" } => tblIdx = Len(tables) + 1
    /\ "copy_commit" \in did =>
          \A i \in 1..Len(tables) :
              targetData[tables[i].relname] = ExportStream(tables[i].relname)

\* witness of C13: two tables with rows were copied and committed
C13_Witness ==
    /\ "copy_commit" \in did
    /\ Len(tables) = 2
    /\ targetData["accounts"] = ExportStream("accounts")
    /\ Len(targetData["accounts"]) = MaxChunks
    /\ targetData["orders"] # << >>

\* C14: the snapshot the dump was taken with and the snapshot the origin-side
\* copy transaction is bound to are the snapshot exported by the slot this
\* same invocation created.
C14_OneSnapshot ==
    /\ snapshot # 0 =>
          /\ "create_slot" \in did
          /\ snapshot = slot.snap
          /\ snapshot = SnapshotId(slot.lsn)
    /\ "dump" \in did => snapshot # 0 /\ dumpSnap \in { 0, snapshot }
    /\ originSnap # 0 => originSnap = snapshot /\ snapshot # 0
    /\ originTx = "open" /\ pc # "failed" => originSnap # 0

\* witness of C14: dump and copy transaction both use the snapshot of a slot
\* created after the origin's WAL had moved on
C14_Witness ==
    /\ "dump" \in did
    /\ dumpSnap = slot.snap
    /\ originTx = "open"
    /\ originSnap = slot.snap
    /\ slot.snap # SnapshotId(1)

\* the entry statuses of the phases that follow the schema synchronisation
LaterPhases ==
    { NODE_STATUS_SLOTS, NODE_STATUS_CATCHUP, NODE_STATUS_CONNECT_BACK }

\* C15: an invocation entered with SLOTS, CATCHUP or CONNECT_BACK opens no
\* replication or copy session and no local transaction, creates no slot,
\* creates or advances no origin, runs no dump, restore or copy; it only
\* writes statuses, connects to the origin and pushes the status, and it
\* leaves slot, origin, dump artifact, schema and table contents unchanged.
C15_LaterPhasesRepeatNothing ==
    /\ [](entry \in LaterPhases =>
            /\ did \subseteq { "set_node_status", "connect", "push_remote" }
            /\ ~replConn /\ ~originConn /\ ~targetConn
            /\ ~xact.open
            /\ advCount = 0
            /\ snapshot = 0 /\ version = 0
            /\ targetBuf = EmptyTables)
    /\ [][(entry \in LaterPhases /\ entry' = entry) =>
            /\ slot' = slot
            /\ ro' = ro
            /\ target' = target]_vars

\* witness of C15: an invocation entered with SLOTS has written the three
\* remaining statuses, pushed READY and returned
C15_Witness ==
    /\ entry = NODE_STATUS_SLOTS
    /\ pc = "returned"
    /\ did = { "set_node_status", "connect", "push_remote" }
    /\ Len(statusLog) = 3

\* C16: the origin ROLLBACK is done, and the origin session closed, before
\* the target COMMIT is sent; the ROLLBACK step never raises, whatever its
\* result, and is followed by the COMMIT; when the COMMIT failed the
\* invocation has raised, no post-data restore has run, nothing was made
\* durable and the persisted status is still SYNC_SCHEMA.
C16_RollbackWarnsCommitRaises ==
    /\ [](/\ pc = "copy_commit" =>
              originTx \in { "rolledback", "aborted" } /\ ~originConn
          /\ did \cap { "copy_commit", "commit_failed" } # { } =>
              originTx \in { "rolledback", "aborted" } /\ ~originConn
          /\ "rollback_failed" \in did => originTx = "aborted"
          /\ "commit_failed" \in did =>
              /\ pc \in { "failed", "idle" }
              /\ result = "ERROR_commit_target"
              /\ "restore_post" \notin did
              /\ "post-data" \notin targetSchema
              /\ targetData = EmptyTables
              /\ stored = NODE_STATUS_SYNC_SCHEMA)
    /\ [][pc = "copy_rollback" => pc' \in { "copy_rollback", "copy_commit", "idle" }]_vars

\* witness of C16: the ROLLBACK failed and the bootstrap went on to SLOTS
C16_Witness ==
    /\ "rollback_failed" \in did
    /\ "copy_commit" \in did
    /\ "restore_post" \in did
    /\ stored = NODE_STATUS_SLOTS

\* C17: a chunk pushed while a cancel request is pending is the last one: the
\* step that pushes it raises the cancellation error, and so does the end of
\* a table; an invocation ended by cancellation has not committed the target
\* copy transaction and has left the persisted status at SYNC_SCHEMA.
C17_CancelStopsCopy ==
    /\ [][(cancel /\ pc = "copy_put") => pc' \in { "copy_put", "failed", "idle" }]_vars
    /\ [][(cancel /\ pc = "copy_put" /\ pc' = "failed" /\ targetBuf' # targetBuf) =>
            result' = "ERROR_canceled"]_vars
    /\ [][(cancel /\ pc = "copy_end") => pc' \in { "copy_end", "failed", "idle" }]_vars
    /\ [](result = "ERROR_canceled" =>
            /\ pc \in { "failed", "idle" }
            /\ targetTx # "committed"
            /\ "copy_commit" \notin did
            /\ targetData = EmptyTables
            /\ stored = NODE_STATUS_SYNC_SCHEMA)

\* witness of C17: the copy was cancelled after the first chunk of a table
\* that has more
C17_Witness ==
    /\ result = "ERROR_canceled"
    /\ pc = "failed"
    /\ tables[tblIdx].relname = "accounts"
    /\ readPos = 1
    /\ Len(targetBuf["accounts"]) = 1
    /\ Len(ExportStream("accounts")) > 1

C19_RemoteReadyAfterLocal ==
    /\ [](/\ remote = NODE_STATUS_READY => stored = NODE_STATUS_READY
          /\ "push_remote" \in did =>
                /\ remote = NODE_STATUS_READY
                /\ stored = NODE_STATUS_READY)
    /\ [][remote' # remote =>
            /\ pc = "connect_origin"
            /\ stored = NODE_STATUS_READY
            /\ statusLog[Len(statusLog)] = << NODE_STATUS_CONNECT_BACK, NODE_STATUS_READY >>
            /\ remote' = NODE_STATUS_READY]_vars

\* witness of C19: READY was pushed by an invocation resumed after a crash
\* and an error
C19_Witness ==
    /\ "push_remote" \in did
    /\ remote = NODE_STATUS_READY
    /\ resumeOf # "none"
    /\ entry # NODE_STATUS_INIT

\* positions from the return of the slot command to the end of the last
\* table's copy
SnapshotInUse ==
    pc \in { "ensure_origin", "advance_origin", "commit_xact",
             "set_sync_schema", "dump_structure", "restore_pre",
             "copy_node_data", "copy_get_tables", "copy_connect_target",
             "copy_table", "copy_get", "copy_put", "copy_end" }

\* C20: from the creation of the slot until the last table was read, the
\* replication session that exported the snapshot is open and the snapshot
\* is importable; the session is used for the slot command only and goes
\* away only with the worker process.
C20_SnapshotSessionKept ==
    /\ []((SnapshotInUse \/ pc = "copy_rollback") => Importable(snapshot))
    /\ [](dumpSnap # 0 /\ "dump" \in did /\ Running => Importable(dumpSnap))
    /\ [](originTx = "open" /\ Running => Importable(originSnap))
    /\ [][(replConn /\ ~replConn') => pc' = "idle"]_vars
    /\ [][(replConn /\ Running /\ "create_slot" \in did) => slot' = slot]_vars

\* witness of C20: the last table was read with the replication session
\* still open
C20_Witness ==
    /\ pc = "copy_rollback"
    /\ Len(tables) = 2
    /\ replConn
    /\ originTx = "open"
    /\ originSnap = slot.snap

====
